---- MODULE Spec2Model ----
(***************************************************************************)
(* Model of removeunwanted.py: a language selector (curses_menu), a ledger *)
(* of checked paths (checked_games.txt), a remote classifier with retries  *)
(* (is_game_language) and the driver loop of main() that deletes the       *)
(* archives whose classified language is not in the keep list.             *)
(*                                                                         *)
(* Text (file names, paths, the ledger file, the service's answers) is a   *)
(* sequence of one-character strings, so that strip(), lower(),            *)
(* endswith() and splitlines() are computed character by character.        *)
(***************************************************************************)
EXTENDS Integers, Sequences, FiniteSets, TLC

(***************************************************************************)
(* Bounds of the model.                                                    *)
(***************************************************************************)
\* number of times the program is started, one run after the other
MaxRuns == 2
\* key presses before the confirm key in one selector session of a run
MaxKeys == 3
\* key presses before the confirm key in the stand-alone selector (SpecMenu)
MaxMenuKeys == 5
\* key presses before the confirm key of each of two concurrent instances
MaxConcKeys == 1

(***************************************************************************)
(* Program constants.                                                      *)
(***************************************************************************)
\* is_game_language(..., retries=5, delay=10)
retries == 5
delay == 10

\* CHECKED_GAMES_FILE = "checked_games.txt"
CHECKED_GAMES_FILE ==
    <<"c","h","e","c","k","e","d","_","g","a","m","e","s",".","t","x","t">>

\* options = ["English", "Japanese", "Chinese"]
options ==
    << <<"E","n","g","l","i","s","h">>,
       <<"J","a","p","a","n","e","s","e">>,
       <<"C","h","i","n","e","s","e">> >>

(***************************************************************************)
(* Text functions of the Python runtime that the program uses.             *)
(***************************************************************************)
UpperCase ==
    <<"A","B","C","D","E","F","G","H","I","J","K","L","M",
      "N","O","P","Q","R","S","T","U","V","W","X","Y","Z">>
LowerCase ==
    <<"a","b","c","d","e","f","g","h","i","j","k","l","m",
      "n","o","p","q","r","s","t","u","v","w","x","y","z">>

\* the characters str.strip() removes (ASCII whitespace)
Whitespace == {" ", "\t", "\n", "\r", "\f"}
\* the characters str.splitlines() ends a line at
LineBreaks == {"\n", "\r", "\f"}

LowerChar(c) ==
    IF \E i \in 1..26 : UpperCase[i] = c
    THEN LowerCase[CHOOSE i \in 1..26 : UpperCase[i] = c]
    ELSE c

\* str.lower()
lower(s) == [i \in 1..Len(s) |-> LowerChar(s[i])]

RECURSIVE lstrip(_)
lstrip(s) ==
    IF s # <<>> /\ Head(s) \in Whitespace THEN lstrip(Tail(s)) ELSE s

RECURSIVE rstrip(_)
rstrip(s) ==
    IF s # <<>> /\ s[Len(s)] \in Whitespace
    THEN rstrip(SubSeq(s, 1, Len(s) - 1))
    ELSE s

\* str.strip()
strip(s) == rstrip(lstrip(s))

\* str.endswith(suffix)
endswith(s, suffix) ==
    /\ Len(s) >= Len(suffix)
    /\ SubSeq(s, Len(s) - Len(suffix) + 1, Len(s)) = suffix

\* str.splitlines(): lines end at a line break ("\r\n" is one break), the
\* breaks are dropped and a trailing unterminated piece is a line only when
\* it is not empty.  cur is the line being collected.
RECURSIVE SplitFrom(_, _)
SplitFrom(s, cur) ==
    IF s = <<>> THEN (IF cur = <<>> THEN <<>> ELSE <<cur>>)
    ELSE IF Head(s) \in LineBreaks
         THEN IF Head(s) = "\r" /\ Len(s) >= 2 /\ s[2] = "\n"
              THEN <<cur>> \o SplitFrom(Tail(Tail(s)), <<>>)
              ELSE <<cur>> \o SplitFrom(Tail(s), <<>>)
         ELSE SplitFrom(Tail(s), Append(cur, Head(s)))

splitlines(s) == SplitFrom(s, <<>>)

\* set(sequence)
SetOf(seq) == {seq[i] : i \in DOMAIN seq}

\* x in list
InList(x, list) == \E i \in DOMAIN list : list[i] = x

\* os.path.join(root, file_name)
os_path_join(root, file_name) == root \o <<"/">> \o file_name

(***************************************************************************)
(* The inputs of the model: the files under the working directory and the  *)
(* texts the remote service answers with.                                  *)
(***************************************************************************)
ZIP == <<".","z","i","p">>
DOT == <<".">>

\* a directory entry is the directory os.walk reports as root and the file name
FileA == [root |-> DOT,                name |-> <<"a",".","z","i","p">>]
FileB == [root |-> <<".","/","s">>,    name |-> <<"B",".","Z","I","P">>]
\* a file name with a line break in it ("c\nd.zip"), legal on POSIX systems
FileC == [root |-> DOT,                name |-> <<"c","\n","d",".","z","i","p">>]
FileN == [root |-> DOT,                name |-> <<"n",".","t","x","t">>]
LedgerEntry == [root |-> DOT, name |-> CHECKED_GAMES_FILE]

InitDisk == {FileA, FileB, FileC, FileN}

Path(e) == os_path_join(e.root, e.name)

\* response.text of a 2xx answer
Responses ==
    { <<"E","n","g","l","i","s","h">>,
      <<" ","e","n","g","l","i","s","h","\n">>,
      <<"J","A","P","A","N","E","S","E">>,
      <<"C","h","i","n","e","s","e",".">>,
      <<>> }

\* time.time() - start_time for one file, in seconds
Elapsed == {1, 3}

\* curses key codes, as far as curses_menu tells them apart
Keys == {"KEY_UP", "KEY_DOWN", "SPACE", "ENTER", "OTHER"}

\* program instances; Spec runs instance 1 alone, one run after the other
Procs == {1, 2}
SeqProcs == {1}

VARIABLES
    disk,          \* the regular files under '.', the ledger file apart
    ledgerExists,  \* os.path.exists(CHECKED_GAMES_FILE)
    ledger,        \* the text of checked_games.txt
    runs,          \* number of runs started so far
    loc,           \* per instance: the position in main() and its locals
    hist,          \* per instance: what the current run has done (history)
    everSaved,     \* history: the paths save_checked_game was ever called with
    keyLog         \* history: the keys pressed in the selector (SpecMenu)

vars == <<disk, ledgerExists, ledger, runs, loc, hist, everSaved, keyLog>>

NoResponse == [ok |-> FALSE, text |-> <<>>]

\* the locals of main() and of the functions it calls, before main() runs
InitLoc ==
    [ pc              |-> "idle",
      selected        |-> <<FALSE, FALSE, FALSE>>,
      current_row     |-> 0,
      keep_languages  |-> <<>>,
      checked_games   |-> {},
      zip_files       |-> <<>>,
      idx             |-> 0,
      remaining_games |-> 0,
      time_per_game   |-> <<>>,
      estimated_time_left |-> [num |-> 0, den |-> 0],
      attempt         |-> 0,
      response        |-> NoResponse,
      answer_text     |-> <<>>,
      result          |-> FALSE ]

\* the history of a run, before it has done anything
InitHist(d, le, l, sv) ==
    [ nkeys    |-> 0,       \* keys pressed in the open menu
      loaded   |-> FALSE,   \* load_checked_games was called
      walked   |-> FALSE,   \* os.walk was called
      requests |-> 0,       \* requests.post calls of the current classifier call
      sleeps   |-> 0,       \* time.sleep calls of the current classifier call
      slept    |-> 0,       \* seconds slept in the current classifier call
      calls    |-> <<>>,    \* the classifier calls that returned, in order
      removed  |-> <<>>,    \* the paths os.remove deleted, in order
      saved    |-> <<>>,    \* the paths save_checked_game appended, in order
      skipped  |-> <<>>,    \* the paths the loop skipped, in order
      disk0    |-> d,       \* the files when the run started
      ledgerExists0 |-> le, \* whether the ledger file existed when the run started
      ledger0  |-> l,       \* the ledger text when the run started
      saved0   |-> sv,      \* the paths earlier runs had appended to the ledger
      afterCompleted |-> FALSE ]  \* the run before this one ended its loop

Init ==
    /\ disk = InitDisk
    /\ ledgerExists = FALSE
    /\ ledger = <<>>
    /\ runs = 0
    /\ loc = [p \in Procs |-> InitLoc]
    /\ hist = [p \in Procs |-> InitHist(InitDisk, FALSE, <<>>, {})]
    /\ everSaved = {}
    /\ keyLog = <<>>

Stopped == {"idle", "done", "aborted", "killed"}

(***************************************************************************)
(* main(): start of a run.  select_languages() opens the menu with nothing *)
(* checked and the cursor on the first row.                                *)
(***************************************************************************)
main_start(p) ==
    /\ loc[p].pc \in Stopped
    /\ runs < MaxRuns
    /\ runs' = runs + 1
    /\ loc' = [loc EXCEPT ![p] = [InitLoc EXCEPT !.pc = "menu"]]
    /\ hist' = [hist EXCEPT ![p] =
                   [InitHist(disk, ledgerExists, ledger, everSaved) EXCEPT
                       !.afterCompleted = (loc[p].pc = "done" /\ hist[p].walked)]]
    /\ UNCHANGED <<disk, ledgerExists, ledger, everSaved>>

(***************************************************************************)
(* curses_menu: one turn of its loop, for the key getch() returned.        *)
(* current_row counts from 0 as in the source; selected is indexed from 1. *)
(***************************************************************************)
\* a change of menu_key: the cursor wraps around at the first and last row
menu_key_wrapping(selected, current_row, key) ==
    IF key = "KEY_UP"
    THEN [selected |-> selected,
          current_row |-> IF current_row > 0 THEN current_row - 1 ELSE Len(options) - 1]
    ELSE IF key = "KEY_DOWN"
    THEN [selected |-> selected,
          current_row |-> IF current_row < Len(options) - 1 THEN current_row + 1 ELSE 0]
    ELSE IF key = "SPACE"
    THEN [selected |-> [selected EXCEPT ![current_row + 1] = ~selected[current_row + 1]],
          current_row |-> current_row]
    ELSE [selected |-> selected, current_row |-> current_row]

\* a change of menu_key: the toggle key checks the option but never unchecks it
menu_key_check_only(selected, current_row, key) ==
    IF key = "KEY_UP" /\ current_row > 0
    THEN [selected |-> selected, current_row |-> current_row - 1]
    ELSE IF key = "KEY_DOWN" /\ current_row < Len(options) - 1
    THEN [selected |-> selected, current_row |-> current_row + 1]
    ELSE IF key = "SPACE"
    THEN [selected |-> [selected EXCEPT ![current_row + 1] = TRUE],
          current_row |-> current_row]
    ELSE [selected |-> selected, current_row |-> current_row]

\* the if/elif chain on the key: the menu state after the key
menu_key(selected, current_row, key) ==
    IF key = "KEY_UP" /\ current_row > 0
    THEN [selected |-> selected, current_row |-> current_row - 1]
    ELSE IF key = "KEY_DOWN" /\ current_row < Len(options) - 1
    THEN [selected |-> selected, current_row |-> current_row + 1]
    ELSE IF key = "SPACE"
    THEN [selected |-> [selected EXCEPT ![current_row + 1] = ~selected[current_row + 1]],
          current_row |-> current_row]
    ELSE [selected |-> selected, current_row |-> current_row]

\* [options[idx].lower() for idx, is_selected in enumerate(selected) if is_selected]
RECURSIVE menu_result_from(_, _)
menu_result_from(selected, i) ==
    IF i > Len(options) THEN <<>>
    ELSE (IF selected[i] THEN <<lower(options[i])>> ELSE <<>>)
         \o menu_result_from(selected, i + 1)

menu_result(selected) == menu_result_from(selected, 1)

curses_menu_key(p, key) ==
    /\ loc[p].pc = "menu"
    /\ IF key = "ENTER"
       THEN \* curses_menu returns: its locals are gone, main() has the list
            /\ loc' = [loc EXCEPT ![p].pc = "selected",
                                  ![p].keep_languages = menu_result(loc[p].selected),
                                  ![p].selected = InitLoc.selected,
                                  ![p].current_row = InitLoc.current_row]
            /\ hist' = [hist EXCEPT ![p].nkeys = 0]
       ELSE /\ loc' = [loc EXCEPT
                 ![p].selected = menu_key(loc[p].selected, loc[p].current_row, key).selected,
                 ![p].current_row = menu_key(loc[p].selected, loc[p].current_row, key).current_row]
            /\ hist' = [hist EXCEPT ![p].nkeys = @ + 1]
    /\ UNCHANGED <<disk, ledgerExists, ledger, runs, everSaved>>

(***************************************************************************)
(* main(): "if not keep_languages: return"                                 *)
(***************************************************************************)
\* a change of after_selection: main() goes on with an empty selection
after_selection_goes_on(keep_languages) == "load"

after_selection(keep_languages) == IF keep_languages = <<>> THEN "done" ELSE "load"

main_check_selection(p) ==
    /\ loc[p].pc = "selected"
    /\ loc' = [loc EXCEPT ![p].pc = after_selection(loc[p].keep_languages)]
    /\ UNCHANGED <<disk, ledgerExists, ledger, runs, hist, everSaved, keyLog>>

(***************************************************************************)
(* load_checked_games()                                                    *)
(***************************************************************************)
checked_set(exists, text) == IF exists THEN SetOf(splitlines(text)) ELSE {}

load_checked_games(p) ==
    /\ loc[p].pc = "load"
    /\ loc' = [loc EXCEPT ![p].pc = "walk",
                          ![p].checked_games = checked_set(ledgerExists, ledger)]
    /\ hist' = [hist EXCEPT ![p].loaded = TRUE]
    /\ UNCHANGED <<disk, ledgerExists, ledger, runs, everSaved, keyLog>>

(***************************************************************************)
(* The walk: os.walk('.') top-down, keeping the files whose lower-cased    *)
(* name ends in '.zip'.  The listing order inside a directory is the       *)
(* file system's; a directory's files come before those of the directories *)
(* below it, and the files of one directory come together.                 *)
(***************************************************************************)
\* everything os.walk lists: the files and, once written, the ledger file
Listed == disk \cup (IF ledgerExists THEN {LedgerEntry} ELSE {})

\* a change of is_archive: the extension is compared as written
is_archive_as_written(file_name) == endswith(file_name, ZIP)

\* file_name.lower().endswith('.zip')
is_archive(file_name) == endswith(lower(file_name), ZIP)

IsProperPrefix(a, b) == Len(a) < Len(b) /\ SubSeq(b, 1, Len(a)) = a

WalkOrders(S) ==
    { s \in [1..Cardinality(S) -> S] :
        /\ \A i, j \in DOMAIN s : i # j => s[i] # s[j]
        /\ \A i, j \in DOMAIN s :
              i < j => ~IsProperPrefix(s[j].root, s[i].root)
        /\ \A i, j, k \in DOMAIN s :
              (i < j /\ j < k /\ s[i].root = s[k].root) => s[j].root = s[i].root }

walk(p) ==
    /\ loc[p].pc = "walk"
    /\ \E order \in WalkOrders({e \in Listed : is_archive(e.name)}) :
          loc' = [loc EXCEPT
             ![p].pc = "loop",
             ![p].zip_files = [i \in DOMAIN order |-> Path(order[i])],
             ![p].idx = 1,
             ![p].remaining_games = Len(order) - Cardinality(loc[p].checked_games)]
    /\ hist' = [hist EXCEPT ![p].walked = TRUE]
    /\ UNCHANGED <<disk, ledgerExists, ledger, runs, everSaved, keyLog>>

(***************************************************************************)
(* The loop of main() over zip_files.  idx is the position of the current  *)
(* path in zip_files, counted from 1 (enumerate counts from 0).            *)
(***************************************************************************)
zip_path(p) == loc[p].zip_files[loc[p].idx]

InLoop(p) == loc[p].pc = "loop" /\ loc[p].idx <= Len(loc[p].zip_files)

\* "if zip_path in checked_games: continue"
is_checked(path, checked_games) == path \in checked_games

\* a change of loop_skip: the loop stays on the path it skips
loop_skip_stuck(p) ==
    /\ InLoop(p)
    /\ is_checked(zip_path(p), loc[p].checked_games)
    /\ UNCHANGED vars

loop_skip(p) ==
    /\ InLoop(p)
    /\ is_checked(zip_path(p), loc[p].checked_games)
    /\ loc' = [loc EXCEPT ![p].idx = @ + 1]
    /\ hist' = [hist EXCEPT ![p].skipped = Append(@, zip_path(p))]
    /\ UNCHANGED <<disk, ledgerExists, ledger, runs, everSaved, keyLog>>

\* the call is_game_language(zip_path, keep_languages): entry into its loop
loop_classify(p) ==
    /\ InLoop(p)
    /\ ~is_checked(zip_path(p), loc[p].checked_games)
    /\ loc' = [loc EXCEPT ![p].pc = "post",
                          ![p].attempt = 1,
                          ![p].response = NoResponse,
                          ![p].answer_text = <<>>,
                          ![p].result = FALSE]
    /\ hist' = [hist EXCEPT ![p].requests = 0, ![p].sleeps = 0, ![p].slept = 0]
    /\ UNCHANGED <<disk, ledgerExists, ledger, runs, everSaved, keyLog>>

\* the for loop over zip_files is exhausted: main() returns
loop_exit(p) ==
    /\ loc[p].pc = "loop"
    /\ loc[p].idx > Len(loc[p].zip_files)
    /\ loc' = [loc EXCEPT ![p].pc = "done"]
    /\ UNCHANGED <<disk, ledgerExists, ledger, runs, hist, everSaved, keyLog>>

(***************************************************************************)
(* is_game_language: one attempt of "for attempt in range(1, retries+1)".  *)
(***************************************************************************)
\* response.text.strip().lower()
answer_of(text) == lower(strip(text))

\* a change of in_keep: the answer only has to start with a kept language
in_keep_prefix(answer_text, keep_languages) ==
    \E i \in DOMAIN keep_languages :
        /\ Len(answer_text) >= Len(keep_languages[i])
        /\ SubSeq(answer_text, 1, Len(keep_languages[i])) = keep_languages[i]

\* answer_text in keep_languages
in_keep(answer_text, keep_languages) == InList(answer_text, keep_languages)

\* a change of after_classify: the branches of main() exchanged
after_classify_swapped(result) == IF result THEN "remove" ELSE "save"

\* the branch of main() on the returned value
after_classify(result) == IF result THEN "save" ELSE "remove"

\* a change of retry_after_failure: one attempt too many
retry_after_failure_le(attempt) == attempt <= retries

\* "if attempt < retries": sleep and try again, else give up
retry_after_failure(attempt) == attempt < retries

\* history of one classifier call: its path, whether an attempt was
\* answered, and the value returned
CallRecord(path, ok, result) == [path |-> path, ok |-> ok, result |-> result]

\* requests.post answered 2xx with the given text: the call returns
post_ok(p, text) ==
    /\ loc[p].pc = "post"
    /\ LET res == in_keep(answer_of(text), loc[p].keep_languages)
       IN  /\ loc' = [loc EXCEPT
                 ![p].response = [ok |-> TRUE, text |-> text],
                 ![p].answer_text = answer_of(text),
                 ![p].result = res,
                 ![p].pc = after_classify(res)]
           /\ hist' = [hist EXCEPT
                 ![p].requests = @ + 1,
                 ![p].calls = Append(@, CallRecord(zip_path(p), TRUE, res))]
    /\ UNCHANGED <<disk, ledgerExists, ledger, runs, everSaved, keyLog>>

\* a change of post_fail: the last failure is not caught and ends main()
post_fail_uncaught(p) ==
    /\ loc[p].pc = "post"
    /\ IF retry_after_failure(loc[p].attempt)
       THEN /\ loc' = [loc EXCEPT ![p].pc = "sleep"]
            /\ hist' = [hist EXCEPT ![p].requests = @ + 1]
       ELSE /\ loc' = [loc EXCEPT ![p].pc = "aborted"]
            /\ hist' = [hist EXCEPT ![p].requests = @ + 1]
    /\ UNCHANGED <<disk, ledgerExists, ledger, runs, everSaved, keyLog>>

\* requests.post or raise_for_status raised a RequestException
post_fail(p) ==
    /\ loc[p].pc = "post"
    /\ IF retry_after_failure(loc[p].attempt)
       THEN /\ loc' = [loc EXCEPT ![p].pc = "sleep"]
            /\ hist' = [hist EXCEPT ![p].requests = @ + 1]
       ELSE /\ loc' = [loc EXCEPT ![p].result = FALSE,
                                  ![p].pc = after_classify(FALSE)]
            /\ hist' = [hist EXCEPT
                  ![p].requests = @ + 1,
                  ![p].calls = Append(@, CallRecord(zip_path(p), FALSE, FALSE))]
    /\ UNCHANGED <<disk, ledgerExists, ledger, runs, everSaved, keyLog>>

\* time.sleep(delay), then the next attempt
sleep(p) ==
    /\ loc[p].pc = "sleep"
    /\ loc' = [loc EXCEPT ![p].pc = "post", ![p].attempt = @ + 1]
    /\ hist' = [hist EXCEPT ![p].sleeps = @ + 1, ![p].slept = @ + delay]
    /\ UNCHANGED <<disk, ledgerExists, ledger, runs, everSaved, keyLog>>

(***************************************************************************)
(* os.remove(zip_path): deletes the file, or raises (the file is gone, or  *)
(* the directory does not allow it) and the exception ends main().         *)
(***************************************************************************)
remove_file(files, path) == {e \in files : Path(e) # path}

os_remove_ok(p) ==
    /\ loc[p].pc = "remove"
    /\ \E e \in disk : Path(e) = zip_path(p)
    /\ disk' = remove_file(disk, zip_path(p))
    /\ loc' = [loc EXCEPT ![p].pc = "save"]
    /\ hist' = [hist EXCEPT ![p].removed = Append(@, zip_path(p))]
    /\ UNCHANGED <<ledgerExists, ledger, runs, everSaved, keyLog>>

\* a change of os_remove_raises: the error is swallowed and the loop goes on
os_remove_ignored(p) ==
    /\ loc[p].pc = "remove"
    /\ loc' = [loc EXCEPT ![p].pc = "save"]
    /\ UNCHANGED <<disk, ledgerExists, ledger, runs, hist, everSaved, keyLog>>

os_remove_raises(p) ==
    /\ loc[p].pc = "remove"
    /\ loc' = [loc EXCEPT ![p].pc = "aborted"]
    /\ UNCHANGED <<disk, ledgerExists, ledger, runs, hist, everSaved, keyLog>>

(***************************************************************************)
(* The end of the loop body: the elapsed time of the file is recorded and  *)
(* the estimate printed, then save_checked_game(zip_path),                 *)
(* "remaining_games -= 1" and the step of the for loop to the next path.   *)
(***************************************************************************)
RECURSIVE Sum(_)
Sum(seq) == IF seq = <<>> THEN 0 ELSE Head(seq) + Sum(Tail(seq))

\* statistics.mean(time_per_game) * (remaining_games - 1), as a fraction
estimate(time_per_game, remaining_games) ==
    [num |-> Sum(time_per_game) * (remaining_games - 1), den |-> Len(time_per_game)]

\* a change of appended: the file is opened with "w" and written anew
appended_truncating(text, filename) == filename \o <<"\n">>

\* file.write(f"{filename}\n") on the file opened with "a"
appended(text, filename) == text \o filename \o <<"\n">>

save_checked_game(p) ==
    /\ loc[p].pc = "save"
    /\ ledger' = appended(ledger, zip_path(p))
    /\ ledgerExists' = TRUE
    /\ everSaved' = everSaved \cup {zip_path(p)}
    /\ \E elapsed_time \in Elapsed :
          loc' = [loc EXCEPT
             ![p].pc = "loop",
             ![p].idx = @ + 1,
             ![p].time_per_game = Append(@, elapsed_time),
             ![p].estimated_time_left =
                 estimate(Append(loc[p].time_per_game, elapsed_time),
                          loc[p].remaining_games),
             ![p].remaining_games = @ - 1]
    /\ hist' = [hist EXCEPT ![p].saved = Append(@, zip_path(p))]
    /\ UNCHANGED <<disk, runs, keyLog>>

(***************************************************************************)
(* The process is killed from outside, at any point of a run: its memory  *)
(* is gone, the files and the ledger stay as they are.                     *)
(***************************************************************************)
kill(p) ==
    /\ loc[p].pc \notin Stopped
    /\ loc' = [loc EXCEPT ![p] = [InitLoc EXCEPT !.pc = "killed"]]
    /\ hist' = [hist EXCEPT ![p] = InitHist(disk, ledgerExists, ledger, everSaved)]
    /\ UNCHANGED <<disk, ledgerExists, ledger, runs, everSaved, keyLog>>

(***************************************************************************)
(* Spec: one instance, run after run.                                      *)
(***************************************************************************)
Start == \E p \in SeqProcs : main_start(p) /\ UNCHANGED keyLog
MenuKey ==
    \E p \in SeqProcs : \E key \in Keys :
        /\ key # "ENTER" => hist[p].nkeys < MaxKeys
        /\ curses_menu_key(p, key)
        /\ UNCHANGED keyLog
CheckSelection == \E p \in SeqProcs : main_check_selection(p)
Load == \E p \in SeqProcs : load_checked_games(p)
Walk == \E p \in SeqProcs : walk(p)
Skip == \E p \in SeqProcs : loop_skip(p)
Classify == \E p \in SeqProcs : loop_classify(p)
Exit == \E p \in SeqProcs : loop_exit(p)
PostOk == \E p \in SeqProcs : \E text \in Responses : post_ok(p, text)
PostFail == \E p \in SeqProcs : post_fail(p)
Sleep == \E p \in SeqProcs : sleep(p)
RemoveOk == \E p \in SeqProcs : os_remove_ok(p)
RemoveRaises == \E p \in SeqProcs : os_remove_raises(p)
Save == \E p \in SeqProcs : save_checked_game(p)
Kill == \E p \in SeqProcs : kill(p)

Next ==
    \/ Start \/ MenuKey \/ CheckSelection \/ Load \/ Walk
    \/ Skip \/ Classify \/ Exit
    \/ PostOk \/ PostFail \/ Sleep
    \/ RemoveOk \/ RemoveRaises \/ Save
    \/ Kill

Spec == Init /\ [][Next]_vars

(***************************************************************************)
(* SpecLive: runs that are not killed and whose os.remove does not raise.  *)
(* The program is sequential and every call it makes returns: a request    *)
(* answers or fails within its timeout, a sleep ends.  So a step of main() *)
(* that can be taken is taken; the user's key presses and the start of a   *)
(* run are not forced.                                                     *)
(***************************************************************************)
ProgramStep ==
    \/ CheckSelection \/ Load \/ Walk
    \/ Skip \/ Classify \/ Exit
    \/ PostOk \/ PostFail \/ Sleep
    \/ RemoveOk \/ Save

NextLive == Start \/ MenuKey \/ ProgramStep

SpecLive == Init /\ [][NextLive]_vars /\ WF_vars(ProgramStep)

(***************************************************************************)
(* SpecMenu: the selector alone, with the keys it was given on record.     *)
(***************************************************************************)
MenuOpen == main_start(1) /\ keyLog' = <<>>
MenuPress ==
    \E key \in Keys :
        /\ key # "ENTER" => Len(keyLog) < MaxMenuKeys
        /\ curses_menu_key(1, key)
        /\ keyLog' = Append(keyLog, key)

NextMenu == MenuOpen \/ MenuPress

SpecMenu == Init /\ [][NextMenu]_vars

(***************************************************************************)
(* SpecConc: two instances started once each on the same directory and     *)
(* ledger, their steps interleaved.  The service answers every request.    *)
(***************************************************************************)
ConcDisk == {FileA, FileB, FileN}

InitConc ==
    /\ disk = ConcDisk
    /\ ledgerExists = FALSE
    /\ ledger = <<>>
    /\ runs = 0
    /\ loc = [p \in Procs |-> InitLoc]
    /\ hist = [p \in Procs |-> InitHist(ConcDisk, FALSE, <<>>, {})]
    /\ everSaved = {}
    /\ keyLog = <<>>

ConcStart == \E p \in Procs : loc[p].pc = "idle" /\ main_start(p) /\ UNCHANGED keyLog
ConcMenuKey ==
    \E p \in Procs : \E key \in Keys :
        /\ key # "ENTER" => hist[p].nkeys < MaxConcKeys
        /\ curses_menu_key(p, key)
        /\ UNCHANGED keyLog
ConcCheckSelection == \E p \in Procs : main_check_selection(p)
ConcLoad == \E p \in Procs : load_checked_games(p)
ConcWalk == \E p \in Procs : walk(p)
ConcSkip == \E p \in Procs : loop_skip(p)
ConcClassify == \E p \in Procs : loop_classify(p)
ConcExit == \E p \in Procs : loop_exit(p)
ConcPostOk == \E p \in Procs : \E text \in Responses : post_ok(p, text)
ConcRemoveOk == \E p \in Procs : os_remove_ok(p)
ConcRemoveRaises == \E p \in Procs : os_remove_raises(p)
ConcSave == \E p \in Procs : save_checked_game(p)

NextConc ==
    \/ ConcStart \/ ConcMenuKey \/ ConcCheckSelection \/ ConcLoad \/ ConcWalk
    \/ ConcSkip \/ ConcClassify \/ ConcExit
    \/ ConcPostOk
    \/ ConcRemoveOk \/ ConcRemoveRaises \/ ConcSave

SpecConc == InitConc /\ [][NextConc]_vars

(***************************************************************************)
(* Definitions the properties share.                                       *)
(***************************************************************************)
\* the paths of a set of directory entries
Paths(files) == {Path(e) : e \in files}

OnDisk(path) == path \in Paths(disk)

\* the text is the word, in any letter case, between runs of whitespace
\* (the word itself is lower case and has no whitespace)
IsWordPadded(text, word) ==
    \E a \in 0..Len(text) :
        /\ Len(text) - a >= Len(word)
        /\ \A j \in 1..a : text[j] \in Whitespace
        /\ \A j \in 1..Len(word) :
              \/ text[a + j] = word[j]
              \/ \E k \in 1..26 : UpperCase[k] = text[a + j] /\ LowerCase[k] = word[j]
        /\ \A j \in (a + Len(word) + 1)..Len(text) : text[j] \in Whitespace

\* the answered text names one of the kept languages exactly
AnswerIsKept(response, keep_languages) ==
    /\ response.ok
    /\ \E i \in DOMAIN keep_languages : IsWordPadded(response.text, keep_languages[i])

\* is_game_language has returned and main() has not yet acted on the value
Returned(p) == loc[p].pc \in {"save", "remove"}

\* the record of the classifier call of this run for the path
CallsOf(p, path) == {c \in SetOf(hist[p].calls) : c.path = path}

(***************************************************************************)
(* C1: is_game_language returns true exactly when an attempt was answered  *)
(* and the answered text, trimmed and lower-cased, is equal to one of the  *)
(* kept languages; it returns false for any other answer and when every    *)
(* attempt failed.                                                         *)
(***************************************************************************)
C1_ExactMembership ==
    \A p \in SeqProcs :
        Returned(p) =>
            (loc[p].result <=> AnswerIsKept(loc[p].response, loc[p].keep_languages))

\* a padded, lower-case answer is accepted
C1_Witness ==
    /\ Returned(1)
    /\ loc[1].result
    /\ loc[1].response.text = <<" ","e","n","g","l","i","s","h","\n">>

(***************************************************************************)
(* C2: a path the run has processed is still on disk exactly when the      *)
(* classifier answered for it with a kept language; every path the walk    *)
(* found that was not in the ledger is processed by a run that completes;  *)
(* and the files a run has deleted are exactly paths whose classifier call *)
(* in that run returned false.                                             *)
(***************************************************************************)
C2_KeptIffAnswerKept ==
    \A p \in SeqProcs :
        \* the decision on the current path has been carried out
        /\ loc[p].pc = "save" =>
              /\ OnDisk(zip_path(p)) <=>
                    AnswerIsKept(loc[p].response, loc[p].keep_languages)
              /\ \A c \in CallsOf(p, zip_path(p)) : c.result <=> OnDisk(zip_path(p))
        \* and it stays as decided for the rest of the run
        /\ \A i \in DOMAIN hist[p].saved :
              /\ CallsOf(p, hist[p].saved[i]) # {}
              /\ \A c \in CallsOf(p, hist[p].saved[i]) :
                    c.result <=> OnDisk(hist[p].saved[i])
        \* a run that completes has processed every path not in the ledger
        /\ (loc[p].pc = "done" /\ hist[p].walked) =>
              SetOf(hist[p].saved) = SetOf(loc[p].zip_files) \ loc[p].checked_games
        \* nothing is deleted but paths classified false in this run
        /\ Paths(hist[p].disk0) \ Paths(disk) = SetOf(hist[p].removed)
        /\ \A j \in DOMAIN hist[p].removed :
              \E c \in CallsOf(p, hist[p].removed[j]) : ~c.result

\* a run completed having kept one file and deleted another
C2_Witness ==
    /\ loc[1].pc = "done"
    /\ \E i, j \in DOMAIN hist[1].saved :
          /\ OnDisk(hist[1].saved[i])
          /\ ~OnDisk(hist[1].saved[j])
          /\ \E c \in CallsOf(1, hist[1].saved[j]) : c.ok

(***************************************************************************)
(* C3: a path that was appended to the ledger, by an earlier run or        *)
(* earlier in this run, is never passed to the classifier again and never  *)
(* deleted afterwards.                                                     *)
(***************************************************************************)
C3_LedgeredNeverAgain ==
    [][\A p \in SeqProcs :
          /\ (loc[p].pc = "loop" /\ loc'[p].pc = "post") => zip_path(p) \notin everSaved
          /\ \A e \in disk \ disk' : Path(e) \notin everSaved]_vars

(***************************************************************************)
(* C4: when the selector returns no language the run ends at once: it has  *)
(* read no ledger, walked no directory, sent no request, deleted nothing   *)
(* and appended nothing; files and ledger are as they were at its start.   *)
(***************************************************************************)
NothingSelected(p) ==
    loc[p].pc \in {"selected", "done"} /\ loc[p].keep_languages = <<>>

C4_NothingDone ==
    \A p \in SeqProcs :
        NothingSelected(p) =>
            /\ ~hist[p].loaded
            /\ ~hist[p].walked
            /\ hist[p].requests = 0
            /\ hist[p].calls = <<>>
            /\ hist[p].removed = <<>>
            /\ hist[p].saved = <<>>
            /\ disk = hist[p].disk0
            /\ ledger = hist[p].ledger0
            /\ ledgerExists = hist[p].ledgerExists0

C4_EndsAtOnce ==
    \A p \in SeqProcs :
        (loc[p].pc = "selected" /\ loc[p].keep_languages = <<>> /\ loc'[p] # loc[p]) =>
            /\ loc'[p].pc \in {"done", "killed"}
            /\ UNCHANGED <<disk, ledger, ledgerExists>>
            /\ loc'[p].pc = "done" => UNCHANGED hist

C4_EmptySelection == []C4_NothingDone /\ [][C4_EndsAtOnce]_vars

\* an empty selection in a later run, with an archive on disk that is not in
\* the ledger and so would have been classified
C4_Witness ==
    /\ loc[1].pc = "done"
    /\ loc[1].keep_languages = <<>>
    /\ ledgerExists
    /\ \E e \in disk :
          is_archive(e.name) /\ Path(e) \notin checked_set(ledgerExists, ledger)

(***************************************************************************)
(* C5: a run that completes has added to the ledger exactly one line for   *)
(* each path the walk found that was not in the ledger at the start, and   *)
(* no other line; the number of lines added is the number of paths the run *)
(* classified.                                                             *)
(***************************************************************************)
\* the lines the ledger has gained since the run started
NewLines(p) ==
    SubSeq(splitlines(ledger),
           Len(splitlines(hist[p].ledger0)) + 1, Len(splitlines(ledger)))

C5_OneLinePerProcessedPath ==
    \A p \in SeqProcs :
        (loc[p].pc = "done" /\ hist[p].walked) =>
            /\ Len(NewLines(p)) = Len(hist[p].calls)
            /\ \A path \in SetOf(loc[p].zip_files) \ loc[p].checked_games :
                  Cardinality({i \in DOMAIN NewLines(p) : NewLines(p)[i] = path}) = 1
            /\ \A i \in DOMAIN NewLines(p) :
                  NewLines(p)[i] \in SetOf(loc[p].zip_files) \ loc[p].checked_games

(***************************************************************************)
(* C6: when every attempt of a classifier call fails, the call returns     *)
(* false after `retries` requests, main() goes on to delete the file,      *)
(* appends the path to the ledger and steps to the next path; only a       *)
(* failing os.remove aborts a run, a failing classifier never does.        *)
(***************************************************************************)
\* the classifier call for the current path gave up
Exhausted(p) == Returned(p) /\ ~loc[p].response.ok

C6_ExhaustedState ==
    \A p \in SeqProcs :
        /\ Exhausted(p) =>
              /\ ~loc[p].result
              /\ hist[p].requests = retries
              /\ \E c \in CallsOf(p, zip_path(p)) : ~c.ok /\ ~c.result
        /\ (Exhausted(p) /\ loc[p].pc = "remove") => OnDisk(zip_path(p))
        /\ (Exhausted(p) /\ loc[p].pc = "save") => ~OnDisk(zip_path(p))
        \* the paths whose call gave up and that were processed are deleted
        /\ \A i \in DOMAIN hist[p].saved :
              \A c \in CallsOf(p, hist[p].saved[i]) : ~c.ok => ~OnDisk(c.path)

C6_ExhaustedStep ==
    \A p \in SeqProcs :
        \* the last failing attempt returns to main(), which goes on to os.remove
        /\ (loc[p].pc = "post" /\ loc'[p].pc \notin {"post", "sleep", "killed"}) =>
              loc'[p].pc \in {"save", "remove"}
        /\ (Exhausted(p) /\ loc[p].pc = "remove"
              /\ loc'[p].pc \notin {"remove", "killed", "aborted"}) =>
              /\ loc'[p].pc = "save"
              /\ disk' = {e \in disk : Path(e) # zip_path(p)}
        /\ (Exhausted(p) /\ loc[p].pc = "save" /\ loc'[p].pc \notin {"save", "killed"}) =>
              /\ ledger' = ledger \o zip_path(p) \o <<"\n">>
              /\ loc'[p].pc = "loop"
              /\ loc'[p].idx = loc[p].idx + 1
              /\ loc'[p].zip_files = loc[p].zip_files
        \* nothing but os.remove aborts a run
        /\ (loc[p].pc # "aborted" /\ loc'[p].pc = "aborted") => loc[p].pc = "remove"

C7_Counts ==
    \A p \in SeqProcs :
        /\ loc[p].pc = "post" =>
              /\ loc[p].attempt \in 1..retries
              /\ hist[p].requests = loc[p].attempt - 1
              /\ hist[p].sleeps = loc[p].attempt - 1
        /\ loc[p].pc = "sleep" =>
              /\ loc[p].attempt \in 1..(retries - 1)
              /\ hist[p].requests = loc[p].attempt
              /\ hist[p].sleeps = loc[p].attempt - 1
        /\ Returned(p) =>
              /\ hist[p].requests \in 1..retries
              /\ hist[p].sleeps = hist[p].requests - 1
              /\ hist[p].slept = delay * (hist[p].requests - 1)
              /\ loc[p].response.ok => hist[p].requests = loc[p].attempt
              /\ ~loc[p].response.ok => hist[p].requests = retries

C7_Steps ==
    \A p \in SeqProcs :
        \* a request is sent only by an attempt of a call that has not returned
        /\ hist'[p].requests # hist[p].requests =>
              \/ loc[p].pc = "post" /\ hist'[p].requests = hist[p].requests + 1
              \/ loc[p].pc \in Stopped \cup {"loop"} /\ hist'[p].requests = 0
              \/ loc'[p].pc = "killed" /\ hist'[p].requests = 0
        \* an answered attempt is the last of its call
        /\ (loc[p].pc = "post" /\ loc'[p].response.ok) => Returned(p)'
        \* a sleep comes between a failed attempt and the next attempt
        /\ hist'[p].sleeps = hist[p].sleeps + 1 =>
              /\ loc[p].pc = "sleep"
              /\ loc'[p].pc = "post"
              /\ loc'[p].attempt = loc[p].attempt + 1

C7_RequestsAndSleeps == []C7_Counts /\ [][C7_Steps]_vars

\* a call answered at its third attempt: three requests, two sleeps
C7_Witness ==
    /\ Returned(1)
    /\ loc[1].response.ok
    /\ hist[1].requests = 3
    /\ hist[1].sleeps = 2

(***************************************************************************)
(* C8: when os.remove fails the run ends there: the failing path is not    *)
(* appended to the ledger, no later path is classified or deleted, and the *)
(* lines appended and the files deleted earlier in the run stay.           *)
(***************************************************************************)
\* the lines save_checked_game writes for a sequence of paths
RECURSIVE LinesOf(_)
LinesOf(paths) ==
    IF paths = <<>> THEN <<>>
    ELSE Head(paths) \o <<"\n">> \o LinesOf(Tail(paths))

C8_AbortedState ==
    \A p \in SeqProcs :
        loc[p].pc = "aborted" =>
            \* the failing path was classified false, is still there, is not appended
            /\ hist[p].calls[Len(hist[p].calls)].path = zip_path(p)
            /\ ~hist[p].calls[Len(hist[p].calls)].result
            /\ OnDisk(zip_path(p))
            /\ zip_path(p) \notin SetOf(hist[p].saved)
            \* what the run did before stays: its lines and its deletions
            /\ ledger = hist[p].ledger0 \o LinesOf(hist[p].saved)
            /\ Paths(hist[p].disk0) \ Paths(disk) = SetOf(hist[p].removed)
            /\ Len(hist[p].saved) = Len(hist[p].calls) - 1
            \* no path after the failing one was classified
            /\ \A i \in (loc[p].idx + 1)..Len(loc[p].zip_files) :
                  CallsOf(p, loc[p].zip_files[i]) = {}

C8_AbortStep ==
    \A p \in SeqProcs :
        \* a delete that leaves the file in place ends the run
        /\ (loc[p].pc = "remove" /\ loc'[p].pc \notin {"remove", "killed"}
              /\ disk' = disk) =>
              /\ loc'[p].pc = "aborted"
              /\ UNCHANGED <<ledger, ledgerExists, hist>>
        \* an aborted run does nothing more; only a new run follows it
        /\ loc[p].pc = "aborted" =>
              /\ UNCHANGED <<disk, ledger, ledgerExists>>
              /\ loc'[p].pc \in {"aborted", "menu"}

C8_DeleteFailureAborts == []C8_AbortedState /\ [][C8_AbortStep]_vars

\* a run aborted after it had deleted and appended an earlier path, with a
\* path still to come
C8_Witness ==
    /\ loc[1].pc = "aborted"
    /\ Len(hist[1].removed) >= 1
    /\ Len(hist[1].saved) >= 1
    /\ loc[1].idx < Len(loc[1].zip_files)
    /\ loc[1].zip_files[loc[1].idx + 1] \notin loc[1].checked_games

(***************************************************************************)
(* C9: a run started after an earlier run was killed, aborted or completed *)
(* skips the paths that are lines of the ledger, classifies exactly the    *)
(* other paths the walk found, and classifies or deletes no path an        *)
(* earlier run had decided on and appended to the ledger.                  *)
(***************************************************************************)
C9_RestartResumes ==
    \A p \in SeqProcs :
        \* the paths classified are paths the walk found that are no ledger line
        /\ \A i \in DOMAIN hist[p].calls :
              /\ hist[p].calls[i].path \in SetOf(loc[p].zip_files)
              /\ hist[p].calls[i].path \notin checked_set(hist[p].ledgerExists0, hist[p].ledger0)
        \* a run that completes has classified all of them
        /\ (loc[p].pc = "done" /\ hist[p].walked) =>
              {hist[p].calls[i].path : i \in DOMAIN hist[p].calls} =
                 SetOf(loc[p].zip_files) \ checked_set(hist[p].ledgerExists0, hist[p].ledger0)
        \* nothing an earlier run appended is classified or deleted again
        /\ \A i \in DOMAIN hist[p].calls : hist[p].calls[i].path \notin hist[p].saved0
        /\ \A i \in DOMAIN hist[p].removed : hist[p].removed[i] \notin hist[p].saved0

(***************************************************************************)
(* C10: when the confirm key is pressed the selector returns the lower-    *)
(* cased names of the options that the toggle key was pressed on an odd    *)
(* number of times while the cursor was on them, in the order of the       *)
(* options; nothing checked gives the empty list.                          *)
(***************************************************************************)
\* the lower-cased option names
LowerNames ==
    << <<"e","n","g","l","i","s","h">>,
       <<"j","a","p","a","n","e","s","e">>,
       <<"c","h","i","n","e","s","e">> >>

\* the row (from 0) the cursor is on after the keys
RECURSIVE CursorAfter(_)
CursorAfter(keys) ==
    IF keys = <<>> THEN 0
    ELSE LET before == CursorAfter(SubSeq(keys, 1, Len(keys) - 1))
             key == keys[Len(keys)]
         IN  IF key = "KEY_UP" THEN (IF before = 0 THEN 0 ELSE before - 1)
             ELSE IF key = "KEY_DOWN" THEN (IF before = 2 THEN 2 ELSE before + 1)
             ELSE before

\* how often the toggle key was pressed with the cursor on option i (from 1)
Toggles(keys, i) ==
    Cardinality({j \in DOMAIN keys :
        keys[j] = "SPACE" /\ CursorAfter(SubSeq(keys, 1, j - 1)) = i - 1})

C10_SelectorResult ==
    (loc[1].pc = "selected" /\ keyLog # <<>>) =>
        LET keep == loc[1].keep_languages IN
        /\ keyLog[Len(keyLog)] = "ENTER"
        /\ \A i \in 1..3 : InList(LowerNames[i], keep) <=> Toggles(keyLog, i) % 2 = 1
        /\ \A a \in DOMAIN keep : \E i \in 1..3 : keep[a] = LowerNames[i]
        /\ \A a, b \in DOMAIN keep :
              a < b => \E i, j \in 1..3 :
                          i < j /\ keep[a] = LowerNames[i] /\ keep[b] = LowerNames[j]
        /\ (\A i \in 1..3 : Toggles(keyLog, i) % 2 = 0) => keep = <<>>

\* English toggled twice, Japanese once: only Japanese is returned
C10_Witness ==
    /\ loc[1].pc = "selected"
    /\ keyLog = <<"SPACE", "KEY_DOWN", "SPACE", "KEY_UP", "SPACE", "ENTER">>
    /\ loc[1].keep_languages = << <<"j","a","p","a","n","e","s","e">> >>

(***************************************************************************)
(* C11: the estimate printed after a file is the mean of the per-file      *)
(* times multiplied by the number of discovered paths still unprocessed:   *)
(* the paths of the walk that are no ledger line and that this run has not *)
(* processed yet.                                                          *)
(***************************************************************************)
\* the positions of zip_files still to be processed (idx is past the file
\* the estimate was printed for)
Unprocessed(p) ==
    {j \in loc[p].idx..Len(loc[p].zip_files) :
        loc[p].zip_files[j] \notin loc[p].checked_games}

C11_EstimateCountsUnprocessed ==
    \A p \in SeqProcs :
        (loc[p].pc \in {"loop", "post", "sleep", "remove", "save", "done", "aborted"}
            /\ loc[p].estimated_time_left.den > 0) =>
            /\ loc[p].estimated_time_left.den = Len(loc[p].time_per_game)
            /\ loc[p].estimated_time_left.num =
                  Sum(loc[p].time_per_game) * Cardinality(Unprocessed(p))

(***************************************************************************)
(* C12: the paths a run may classify, delete or append are exactly the     *)
(* files under the working directory whose name ends in ".zip" in any      *)
(* letter case; a file with another name, the ledger file included, is     *)
(* never deleted and never appended to the ledger.                         *)
(***************************************************************************)
EndsInZipAnyCase(name) ==
    /\ Len(name) >= 4
    /\ name[Len(name) - 3] = "."
    /\ name[Len(name) - 2] \in {"z", "Z"}
    /\ name[Len(name) - 1] \in {"i", "I"}
    /\ name[Len(name)] \in {"p", "P"}

\* the files there were when the run started, the ledger file among them
Files0(p) ==
    hist[p].disk0 \cup (IF hist[p].ledgerExists0 THEN {LedgerEntry} ELSE {})

Archives0(p) == {Path(e) : e \in {f \in Files0(p) : EndsInZipAnyCase(f.name)}}

C12_OnlyArchives ==
    \A p \in SeqProcs :
        /\ hist[p].walked => SetOf(loc[p].zip_files) = Archives0(p)
        /\ \A i \in DOMAIN hist[p].calls : hist[p].calls[i].path \in Archives0(p)
        /\ SetOf(hist[p].removed) \subseteq Archives0(p)
        /\ SetOf(hist[p].saved) \subseteq Archives0(p)
        \* the other files stay, and the ledger file once written stays
        /\ \A e \in hist[p].disk0 : ~EndsInZipAnyCase(e.name) => e \in disk
        /\ hist[p].ledgerExists0 => ledgerExists
        /\ \A e \in InitDisk \cup {LedgerEntry} :
              ~EndsInZipAnyCase(e.name) =>
                  /\ Path(e) \notin everSaved
                  /\ Path(e) \notin SetOf(splitlines(ledger))

\* a completed run has processed the upper-case archive of the directory
\* below and left the text file and the ledger file alone
C12_Witness ==
    /\ loc[1].pc = "done"
    /\ Path(FileB) \in SetOf(hist[1].saved)
    /\ Path(FileB) \in SetOf(hist[1].removed)
    /\ hist[1].ledgerExists0
    /\ FileN \in disk

(***************************************************************************)
(* C13: the ledger is append-only.  No step removes, rewrites or reorders  *)
(* what the ledger holds: its text and its lines only grow at the end, and *)
(* at any point of a run the ledger is its text at the start of the run    *)
(* followed by the paths the run has processed, one write each, in the     *)
(* order they were processed.                                              *)
(***************************************************************************)
IsPrefix(a, b) == Len(a) <= Len(b) /\ SubSeq(b, 1, Len(a)) = a

C13_RunAppends ==
    \A p \in SeqProcs :
        /\ ledger = hist[p].ledger0 \o LinesOf(hist[p].saved)
        /\ IsPrefix(splitlines(hist[p].ledger0), splitlines(ledger))
        \* the paths appended are the paths classified, in that order
        /\ \A i \in DOMAIN hist[p].saved : hist[p].saved[i] = hist[p].calls[i].path

C13_Grows ==
    /\ IsPrefix(ledger, ledger')
    /\ IsPrefix(splitlines(ledger), splitlines(ledger'))
    /\ ledgerExists => ledgerExists'

C13_AppendOnly == []C13_RunAppends /\ [][C13_Grows]_vars

\* the second run has appended two paths after the lines of the first run
C13_Witness ==
    /\ runs = 2
    /\ hist[1].ledger0 # <<>>
    /\ Len(hist[1].saved) = 2

(***************************************************************************)
(* C14: two instances on the same directory and ledger race.  A path can   *)
(* be classified by both and then stands twice in the ledger, and an       *)
(* instance's os.remove can fail because the other instance has deleted    *)
(* the file, which aborts it.  A path stands in the ledger once for each   *)
(* instance that appended it, and a delete of a file that is gone fails    *)
(* only after the other instance deleted that path.                        *)
(***************************************************************************)
Other(p) == CHOOSE q \in Procs : q # p

\* how often the path is a line of the ledger
LinesEqual(path) ==
    Cardinality({i \in DOMAIN splitlines(ledger) : splitlines(ledger)[i] = path})

\* how many instances have appended the path
Appenders(path) == Cardinality({p \in Procs : path \in SetOf(hist[p].saved)})

C14_Races ==
    /\ \A e \in ConcDisk : LinesEqual(Path(e)) = Appenders(Path(e))
    /\ \A p \in Procs :
          /\ \A i, j \in DOMAIN hist[p].saved :
                i # j => hist[p].saved[i] # hist[p].saved[j]
          /\ (loc[p].pc \in {"remove", "aborted"} /\ ~OnDisk(zip_path(p))) =>
                zip_path(p) \in SetOf(hist[Other(p)].removed)

\* both instances classified and appended './a.zip', which stands twice in
\* the ledger; instance 1 deleted './s/B.ZIP' and instance 2, which had
\* classified it too, was aborted by its os.remove
C14_Witness ==
    /\ \E c \in CallsOf(1, Path(FileA)) : c.result
    /\ \E c \in CallsOf(2, Path(FileA)) : c.result
    /\ LinesEqual(Path(FileA)) = 2
    /\ Path(FileB) \in SetOf(hist[1].removed)
    /\ \E c \in CallsOf(2, Path(FileB)) : ~c.result
    /\ loc[2].pc = "aborted"
    /\ zip_path(2) = Path(FileB)

(***************************************************************************)
(* C15: once languages are selected, a run that is not stopped from        *)
(* outside and meets no file system error comes to its end; on the way it  *)
(* handles the paths of the walk one by one in traversal order, each       *)
(* skipped or processed once, with at most `retries` requests per          *)
(* classified path.                                                        *)
(***************************************************************************)
\* the elements of seq that are in S (keep = TRUE) or not in S (keep = FALSE)
RECURSIVE Filter(_, _, _)
Filter(seq, S, keep) ==
    IF seq = <<>> THEN <<>>
    ELSE (IF (Head(seq) \in S) = keep THEN <<Head(seq)>> ELSE <<>>)
         \o Filter(Tail(seq), S, keep)

\* the paths of the walk the loop has left behind
Handled(p) == SubSeq(loc[p].zip_files, 1, loc[p].idx - 1)

C15_InOrder ==
    \A p \in SeqProcs :
        /\ hist[p].walked =>
              /\ loc[p].idx \in 1..(Len(loc[p].zip_files) + 1)
              /\ hist[p].skipped = Filter(Handled(p), loc[p].checked_games, TRUE)
              /\ hist[p].saved = Filter(Handled(p), loc[p].checked_games, FALSE)
              /\ \A i, j \in DOMAIN loc[p].zip_files :
                    i # j => loc[p].zip_files[i] # loc[p].zip_files[j]
        /\ (hist[p].walked /\ loc[p].pc = "done") =>
              loc[p].idx = Len(loc[p].zip_files) + 1
        /\ hist[p].requests <= retries

C15_Terminates ==
    \A p \in SeqProcs : (loc[p].pc = "load") ~> (loc[p].pc = "done")

C15_RunTerminates == []C15_InOrder /\ C15_Terminates

\* the second run has come to its end having skipped a path and processed
\* another
C15_Witness ==
    /\ runs = 2
    /\ loc[1].pc = "done"
    /\ hist[1].skipped # <<>>
    /\ hist[1].saved # <<>>

(***************************************************************************)
(* C16: when a run has ended its loop, every archive still on disk is a    *)
(* line of the ledger, and the run started right after it, whatever its    *)
(* selection, makes no classifier call, deletes nothing and appends        *)
(* nothing.                                                                *)
(***************************************************************************)
C16_SecondRunIdle ==
    \A p \in SeqProcs :
        /\ (loc[p].pc = "done" /\ hist[p].walked) =>
              \A e \in disk :
                  EndsInZipAnyCase(e.name) =>
                      Path(e) \in SetOf(splitlines(ledger))
        /\ hist[p].afterCompleted =>
              /\ hist[p].requests = 0
              /\ hist[p].calls = <<>>
              /\ hist[p].removed = <<>>
              /\ hist[p].saved = <<>>
              /\ ledger = hist[p].ledger0
              /\ disk = hist[p].disk0

(***************************************************************************)
(* C17: the ledger starts without a duplicate line, and after any number   *)
(* of runs one after the other, killed, aborted or completed, it has no    *)
(* duplicate line.                                                         *)
(***************************************************************************)
NoDuplicate(seq) == \A i, j \in DOMAIN seq : i # j => seq[i] # seq[j]

C17_NoDuplicateLine == NoDuplicate(splitlines(ledger))

(***************************************************************************)
(* C18: in the selector the cursor row is always one of the rows of the    *)
(* options; up at the first row and down at the last row leave it where it *)
(* is; up and down never change what is checked; the toggle key changes    *)
(* the option under the cursor and nothing else; a key that is not up,     *)
(* down, space or enter changes nothing.                                   *)
(***************************************************************************)
C18_RowInRange ==
    /\ loc[1].current_row \in 0..(Len(options) - 1)
    /\ DOMAIN loc[1].selected = 1..Len(options)

\* a key other than enter was handled by the open menu
C18_KeyStep ==
    (loc[1].pc = "menu" /\ loc'[1].pc = "menu" /\ keyLog' = Append(keyLog, keyLog'[Len(keyLog')])) =>
        LET key == keyLog'[Len(keyLog')]
            row == loc[1].current_row
            last == Len(options) - 1
        IN  /\ key = "KEY_UP" =>
                  /\ loc'[1].selected = loc[1].selected
                  /\ loc'[1].current_row = IF row = 0 THEN 0 ELSE row - 1
            /\ key = "KEY_DOWN" =>
                  /\ loc'[1].selected = loc[1].selected
                  /\ loc'[1].current_row = IF row = last THEN last ELSE row + 1
            /\ key = "SPACE" =>
                  /\ loc'[1].current_row = row
                  /\ loc'[1].selected[row + 1] = ~loc[1].selected[row + 1]
                  /\ \A i \in 1..Len(options) :
                        i # row + 1 => loc'[1].selected[i] = loc[1].selected[i]
            /\ key \notin {"KEY_UP", "KEY_DOWN", "SPACE", "ENTER"} =>
                  /\ loc'[1].selected = loc[1].selected
                  /\ loc'[1].current_row = row

C18_SelectorKeys == []C18_RowInRange /\ [][C18_KeyStep]_vars

\* down pressed at the last row, with an option checked on the way
C18_Witness ==
    /\ loc[1].pc = "menu"
    /\ keyLog = <<"KEY_DOWN", "SPACE", "KEY_DOWN", "KEY_DOWN", "OTHER">>
    /\ loc[1].current_row = Len(options) - 1
    /\ loc[1].selected = <<FALSE, TRUE, FALSE>>

====
